---- MODULE Spec2Model ----
(***************************************************************************)
(* Model of the animation core of movement-interpolation                   *)
(* (src/src/animation.rs): DiscreteFrameAnimation and ContinuousAnimation, *)
(* their builders, and the rotation math they share; and of the redraw     *)
(* closure and the panel of src/src/main.rs, which drive them.             *)
(*                                                                         *)
(* Numbers.  The code computes in f32/f64.  The model computes exactly in  *)
(* the field Q(sqrt 2) extended with NaN: a number is <<a, b, d>>, read    *)
(* (a + b*sqrt(2)) / d with d > 0 and gcd(a, b, d) = 1, and <<0, 0, 0>> is *)
(* NaN.  Q(sqrt 2) holds the sine and cosine of every multiple of 45       *)
(* degrees, so Euler angles that are multiples of 90 degrees have exact    *)
(* quaternions and rotation matrices.  Rounding is not modelled.           *)
(*                                                                         *)
(* Angles are counted in quarter turns (90 degrees), so PI is 2.           *)
(* Times are counted in integer ticks.                                     *)
(***************************************************************************)
EXTENDS Integers, Sequences, FiniteSets, TLC

\* ------------------------------------------------------------------ bounds

\* Largest frames_count the builder is given.
MaxFramesCount == 4

\* Largest animation_time, in ticks.
MaxAnimationTime == 3

\* Largest |dt| of one make_step call, in ticks.
MaxDelta == 2

\* Most make_step calls on one instance.
MaxSteps == 3

\* Angles given to angles_shortest_path are multiples of 1/AngleSteps of a
\* quarter turn: 10 degrees.
AngleSteps == 9

\* ------------------------------------------------------- program constants

\* std::f32::consts::PI, in quarter turns
PI == 2

\* --------------------------------------------------------------- evaluation

\* `let x = v; Body(x)`: Body of the value of v.  TLC evaluates the argument
\* of an operator where the operator uses it; a bound variable holds a value,
\* so v is evaluated once, and before Body is entered.
Let(v, Body(_)) == CHOOSE r \in {Body(x) : x \in {v}} : TRUE

\* ------------------------------------------------------------------ numbers
\* The representation of f32/f64 values and their arithmetic (+, -, *, /,
\* comparison), used wherever the code computes with floats.

Abs(n) == IF n < 0 THEN -n ELSE n

RECURSIVE Gcd(_, _)
Gcd(m, n) == IF n = 0 THEN m ELSE Gcd(n, m % n)

NaN == <<0, 0, 0>>

IsNaN(x) == x[3] = 0

\* a, b and d divided by their common divisor g.
Lowest(a, b, d, g) == <<a \div g, b \div g, d \div g>>

\* (a + b*sqrt 2)/d in lowest terms with a positive denominator; d = 0 is NaN.
RECURSIVE Num(_, _, _)
Num(a, b, d) ==
    IF d = 0 THEN NaN
    ELSE IF d = 1 THEN <<a, b, 1>>
    ELSE IF d < 0 THEN Num(-a, -b, -d)
    ELSE Lowest(a, b, d, Gcd(Gcd(Abs(a), Abs(b)), d))

Whole(n) == <<n, 0, 1>>

Zero == <<0, 0, 1>>

One == <<1, 0, 1>>

Add(x, y) ==
    IF IsNaN(x) \/ IsNaN(y) THEN NaN
    ELSE Num(x[1] * y[3] + y[1] * x[3], x[2] * y[3] + y[2] * x[3], x[3] * y[3])

Neg(x) == <<-x[1], -x[2], x[3]>>

Sub(x, y) == Add(x, Neg(y))

Mul(x, y) ==
    IF IsNaN(x) \/ IsNaN(y) THEN NaN
    ELSE Num(x[1] * y[1] + 2 * x[2] * y[2], x[1] * y[2] + x[2] * y[1], x[3] * y[3])

\* 1/y for y that is not NaN: the conjugate over the norm.  1/0 is NaN here;
\* the only zero divisor the code can meet on the modelled inputs is the norm
\* of the zero quaternion, whose components are 0, and 0/0 is NaN in IEEE
\* arithmetic too.
Inverse(y) == Num(y[3] * y[1], -(y[3] * y[2]), y[1] * y[1] - 2 * y[2] * y[2])

Div(x, y) == IF IsNaN(x) \/ IsNaN(y) THEN NaN ELSE Mul(x, Inverse(y))

\* Sign of a + b*sqrt 2: -1, 0 or 1.
SignOf(a, b) ==
    IF a = 0 /\ b = 0 THEN 0
    ELSE IF a >= 0 /\ b >= 0 THEN 1
    ELSE IF a <= 0 /\ b <= 0 THEN -1
    ELSE IF a > 0 THEN (IF a * a > 2 * b * b THEN 1 ELSE -1)
    ELSE (IF 2 * b * b > a * a THEN 1 ELSE -1)

\* Sign of a number that is not NaN.
Sign(x) == SignOf(x[1], x[2])

\* IEEE comparisons: every comparison with NaN is false.
Lt(x, y) == ~IsNaN(x) /\ ~IsNaN(y) /\ Sign(Sub(x, y)) = -1

Gt(x, y) == Lt(y, x)

Ge(x, y) == ~IsNaN(x) /\ ~IsNaN(y) /\ Sign(Sub(x, y)) >= 0

\* IEEE equality: NaN equals nothing, itself included.
Eq(x, y) == ~IsNaN(x) /\ ~IsNaN(y) /\ x = y

IsInteger(x) == x[3] = 1 /\ x[2] = 0

\* The sum of the first n items of terms.
RECURSIVE Sum(_, _)
Sum(terms, n) == IF n = 0 THEN Zero ELSE Add(Sum(terms, n - 1), terms[n])

\* The product of env[idx[1]], ..., env[idx[n]].
RECURSIVE Product(_, _, _)
Product(env, idx, n) == IF n = 0 THEN One ELSE Mul(Product(env, idx, n - 1), env[idx[n]])

\* A monomial <<c, idx>> is c times the product of the values env[idx[k]].
Monomial(t, env) == Mul(Whole(t[1]), Product(env, t[2], Len(t[2])))

\* A polynomial is a sequence of monomials; its value on env.
Polynomial(terms, env) ==
    Sum([n \in 1..Len(terms) |-> Monomial(terms[n], env)], Len(terms))

\* ------------------------------------------------------------- trigonometry

\* Truncated remainder of Rust's % on f32, for rational x and an integer m > 0.
Rem(x, m) ==
    IF IsNaN(x) THEN NaN
    ELSE IF x[1] < 0 THEN Num(-((-x[1]) % (m * x[3])), 0, x[3])
    ELSE Num(x[1] % (m * x[3]), 0, x[3])

\* The value of an expression the number field cannot hold (the sine of an
\* angle that is no multiple of 45 degrees).  Evaluating it stops TLC with
\* an error, so no run can rest on a value the model made up.
OffGrid == CHOOSE v \in {} : TRUE

\* cos of k eighths of a turn (k * 45 degrees), for k in 0..7.
CosTable ==
    << <<1, 0, 1>>, <<0, 1, 2>>, <<0, 0, 1>>, <<0, -1, 2>>,
       <<-1, 0, 1>>, <<0, -1, 2>>, <<0, 0, 1>>, <<0, 1, 2>> >>

CosEighth(k) == CosTable[(k % 8) + 1]

\* sin(a) = cos(a - 90 degrees) = cos(a + 270 degrees)
SinEighth(k) == CosEighth(k + 6)

\* f32::sin_cos of half the angle x (x in quarter turns, an integer on the
\* modelled inputs): <<sin, cos>>.
HalfSinCos(x) ==
    IF IsNaN(x) THEN <<NaN, NaN>>
    ELSE IF IsInteger(x) THEN <<SinEighth(x[1]), CosEighth(x[1])>>
    ELSE OffGrid

\* f32::sin_cos of the angle x itself: <<sin, cos>>.
SinCos(x) ==
    IF IsNaN(x) THEN <<NaN, NaN>>
    ELSE IF IsInteger(x) THEN <<SinEighth(2 * x[1]), CosEighth(2 * x[1])>>
    ELSE OffGrid

\* f32::asin on -1, 0, 1, in quarter turns.
Asin(x) ==
    IF IsNaN(x) THEN NaN
    ELSE IF x \in {Neg(One), Zero, One} THEN Whole(x[1])
    ELSE OffGrid

\* atan2(y, x) from the signs sy of y and sx of x, in quarter turns, where
\* x or y is 0 or |x| = |y|.
Atan2OfSigns(y, x, sy, sx) ==
    IF sy = 0 THEN (IF sx >= 0 THEN Zero ELSE Whole(2))
    ELSE IF sx = 0 THEN Whole(sy)
    ELSE IF Mul(x, x) # Mul(y, y) THEN OffGrid
    ELSE IF sx > 0 THEN Num(sy, 0, 2)
    ELSE Num(3 * sy, 0, 2)

\* f32::atan2(y, x).
Atan2(y, x) ==
    IF IsNaN(x) \/ IsNaN(y) THEN NaN ELSE Atan2OfSigns(y, x, Sign(y), Sign(x))

\* -------------------------------------------------------------- quaternions
\* nalgebra Quaternion<f32>: <<w, i, j, k>>.

QScale(s, q) == [c \in 1..4 |-> Mul(s, q[c])]

QAdd(p, q) == [c \in 1..4 |-> Add(p[c], q[c])]

QSub(p, q) == SubSeq([c \in 1..4 |-> Sub(p[c], q[c])], 1, 4)

QDot(p, q) == Sum([c \in 1..4 |-> Mul(p[c], q[c])], 4)

norm_squared(q) == QDot(q, q)

\* The Hamilton product p * q, one polynomial per component, over the values
\* <<p.w, p.i, p.j, p.k, q.w, q.i, q.j, q.k>> (numbered 1..8):
\*   w = pw*qw - pi*qi - pj*qj - pk*qk
\*   i = pw*qi + pi*qw + pj*qk - pk*qj
\*   j = pw*qj - pi*qk + pj*qw + pk*qi
\*   k = pw*qk + pi*qj - pj*qi + pk*qw
HamiltonProduct ==
    << << <<1, <<1, 5>>>>, <<-1, <<2, 6>>>>, <<-1, <<3, 7>>>>, <<-1, <<4, 8>>>> >>,
       << <<1, <<1, 6>>>>, <<1, <<2, 5>>>>, <<1, <<3, 8>>>>, <<-1, <<4, 7>>>> >>,
       << <<1, <<1, 7>>>>, <<-1, <<2, 8>>>>, <<1, <<3, 5>>>>, <<1, <<4, 6>>>> >>,
       << <<1, <<1, 8>>>>, <<1, <<2, 7>>>>, <<-1, <<3, 6>>>>, <<1, <<4, 5>>>> >> >>

\* The value of every polynomial of table on env, as a tuple.
Evaluate(table, env) ==
    Let(env, LAMBDA values :
        SubSeq([c \in 1..Len(table) |-> Polynomial(table[c], values)], 1, Len(table)))

\* `p * q` on quaternions.
QMul(p, q) == Evaluate(HamiltonProduct, SubSeq(p, 1, 4) \o SubSeq(q, 1, 4))

\* Square roots the modelled norms need: k, k*sqrt(2) and 1/2000.
Roots == {<<k, 0, 1>> : k \in 1..4} \cup {<<0, k, 1>> : k \in 1..3} \cup {<<1, 0, 2000>>}

Sqrt(x) ==
    IF IsNaN(x) THEN NaN
    ELSE IF x = Zero THEN Zero
    ELSE CHOOSE r \in Roots : Mul(r, r) = x

\* q with every component divided by n.
QDivide(q, n) == Let(n, LAMBDA norm : SubSeq([c \in 1..4 |-> Div(q[c], norm)], 1, 4))

\* UnitQuaternion::from_quaternion: q / |q|.  The zero quaternion gives 0/0.
from_quaternion(q) == QDivide(q, Sqrt(norm_squared(q)))

\* UnitQuaternion::from_euler_angles, one polynomial per component, over the
\* values <<sr, cr, sp, cp, sy, cy>> (numbered 1..6), the sines and cosines
\* of half the roll, pitch and yaw:
\*   w = cr*cp*cy + sr*sp*sy
\*   i = sr*cp*cy - cr*sp*sy
\*   j = cr*sp*cy + sr*cp*sy
\*   k = cr*cp*sy - sr*sp*cy
EulerQuaternion ==
    << << <<1, <<2, 4, 6>>>>, <<1, <<1, 3, 5>>>> >>,
       << <<1, <<1, 4, 6>>>>, <<-1, <<2, 3, 5>>>> >>,
       << <<1, <<2, 3, 6>>>>, <<1, <<1, 4, 5>>>> >>,
       << <<1, <<2, 4, 5>>>>, <<-1, <<1, 3, 6>>>> >> >>

\* UnitQuaternion::from_euler_angles(roll, pitch, yaw).
from_euler_angles(roll, pitch, yaw) ==
    Evaluate(EulerQuaternion, HalfSinCos(roll) \o HalfSinCos(pitch) \o HalfSinCos(yaw))

\* ---------------------------------------------------------------- rotations
\* A 3x3 matrix is the tuple of its rows, <<m00, m01, m02, m10, ..., m22>>.

\* UnitQuaternion::to_rotation_matrix, one polynomial per entry, over the
\* components <<w, i, j, k>> (numbered 1..4):
\*   m00 = ww + ii - jj - kk   m01 = 2ij - 2wk           m02 = 2wj + 2ik
\*   m10 = 2wk + 2ij           m11 = ww - ii + jj - kk   m12 = 2jk - 2wi
\*   m20 = 2ik - 2wj           m21 = 2wi + 2jk           m22 = ww - ii - jj + kk
QuaternionMatrix ==
    << << <<1, <<1, 1>>>>, <<1, <<2, 2>>>>, <<-1, <<3, 3>>>>, <<-1, <<4, 4>>>> >>,
       << <<2, <<2, 3>>>>, <<-2, <<1, 4>>>> >>,
       << <<2, <<1, 3>>>>, <<2, <<2, 4>>>> >>,
       << <<2, <<1, 4>>>>, <<2, <<2, 3>>>> >>,
       << <<1, <<1, 1>>>>, <<-1, <<2, 2>>>>, <<1, <<3, 3>>>>, <<-1, <<4, 4>>>> >>,
       << <<2, <<3, 4>>>>, <<-2, <<1, 2>>>> >>,
       << <<2, <<2, 4>>>>, <<-2, <<1, 3>>>> >>,
       << <<2, <<1, 2>>>>, <<2, <<3, 4>>>> >>,
       << <<1, <<1, 1>>>>, <<-1, <<2, 2>>>>, <<-1, <<3, 3>>>>, <<1, <<4, 4>>>> >> >>

\* UnitQuaternion::to_rotation_matrix of the unit quaternion q.
to_rotation_matrix(q) == Evaluate(QuaternionMatrix, q)

\* Rotation3::from_euler_angles, one polynomial per entry, over the values
\* <<sr, cr, sp, cp, sy, cy>> (numbered 1..6), the sines and cosines of the
\* roll, pitch and yaw:
\*   m00 = cy*cp   m01 = cy*sp*sr - sy*cr   m02 = cy*sp*cr + sy*sr
\*   m10 = sy*cp   m11 = sy*sp*sr + cy*cr   m12 = sy*sp*cr - cy*sr
\*   m20 = -sp     m21 = cp*sr              m22 = cp*cr
EulerMatrix ==
    << << <<1, <<6, 4>>>> >>,
       << <<1, <<6, 3, 1>>>>, <<-1, <<5, 2>>>> >>,
       << <<1, <<6, 3, 2>>>>, <<1, <<5, 1>>>> >>,
       << <<1, <<5, 4>>>> >>,
       << <<1, <<5, 3, 1>>>>, <<1, <<6, 2>>>> >>,
       << <<1, <<5, 3, 2>>>>, <<-1, <<6, 1>>>> >>,
       << <<-1, <<3>>>> >>,
       << <<1, <<4, 1>>>> >>,
       << <<1, <<4, 2>>>> >> >>

\* Rotation3::from_euler_angles(roll, pitch, yaw).
Rotation3_from_euler_angles(roll, pitch, yaw) ==
    Evaluate(EulerMatrix, SinCos(roll) \o SinCos(pitch) \o SinCos(yaw))

\* atan2(y / c, x / c)
Atan2Over(y, x, c) == Atan2(Div(y, c), Div(x, c))

\* The angles of a matrix m away from gimbal lock, pitch being -asin(m20)
\* and theta_cos its cosine.
EulerAnglesAt(m, pitch, theta_cos) ==
    <<Atan2Over(m[8], m[9], theta_cos), pitch, Atan2Over(m[4], m[1], theta_cos)>>

EulerAnglesOfPitch(m, pitch) == EulerAnglesAt(m, pitch, SinCos(pitch)[2])

\* atan2(m21, m22), the roll of a matrix m with m20 <= -1.
LockedRoll(m) == Atan2(m[8], m[9])

\* Rotation3::euler_angles of the matrix m: <<roll, pitch, yaw>>.
\* The tests are |m20| < 1, then m20 <= -1; a NaN m20 fails both.
Rotation3_euler_angles(m) ==
    IF Lt(m[7], One) /\ Gt(m[7], Neg(One)) THEN EulerAnglesOfPitch(m, Neg(Asin(m[7])))
    ELSE IF ~IsNaN(m[7]) /\ Sign(m[7]) < 0 THEN <<LockedRoll(m), Whole(1), Zero>>
    ELSE <<Neg(LockedRoll(m)), Whole(-1), Zero>>

\* UnitQuaternion::euler_angles.
euler_angles(q) == Rotation3_euler_angles(to_rotation_matrix(q))


\* ------------------------------------------------------------ AnimationAngle
\* enum AnimationAngle { Quternion(Quaternion<f32>), Euler(Vector3<f32>) }

new_quternion(q) == [variant |-> "Quternion", value |-> q]

new_euler(e) == [variant |-> "Euler", value |-> e]

\* std::f32::consts::TAU = 2 * PI
TAU == 2 * PI

\* The wrap of a remainder a of TAU into [-PI, PI].
Wrapped(a) ==
    IF Gt(a, Whole(PI)) THEN Sub(a, Whole(TAU))
    ELSE IF Lt(a, Whole(-PI)) THEN Add(a, Whole(TAU))
    ELSE a

\* egui::emath::normalized_angle: wraps into [-PI, PI].
normalized_angle(angle) == Wrapped(Rem(angle, TAU))

\* if angle >= 0 { angle } else { angle + 2 * PI }
NonNegative(angle) == IF Ge(angle, Zero) THEN angle ELSE Add(angle, Whole(2 * PI))

normalize_angle(angle) == NonNegative(normalized_angle(angle))

\* A faulty ShortestPathOf: the tests are against a full turn, not half of one.
shortest_path_over_full_turn(begin, end, diff) ==
    IF Gt(diff, Whole(2 * PI)) THEN <<begin, Sub(end, Whole(2 * PI))>>
    ELSE IF Lt(diff, Whole(-2 * PI)) THEN <<Sub(begin, Whole(2 * PI)), end>>
    ELSE <<begin, end>>

\* A faulty ShortestPathOf: below -PI it is end that is shifted, by -2 PI.
shortest_path_shifting_end(begin, end, diff) ==
    IF Gt(diff, Whole(PI)) THEN <<begin, Sub(end, Whole(2 * PI))>>
    ELSE IF Lt(diff, Whole(-PI)) THEN <<begin, Sub(end, Whole(2 * PI))>>
    ELSE <<begin, end>>

\* The branches of angles_shortest_path, diff being end - begin: <<begin, end>>.
ShortestPathOf(begin, end, diff) ==
    IF Gt(diff, Whole(PI))
    THEN (IF Lt(begin, end) THEN <<begin, Sub(end, Whole(2 * PI))>>
          ELSE <<begin, Add(end, Whole(2 * PI))>>)
    ELSE IF Lt(diff, Whole(-PI))
    THEN (IF Lt(begin, end) THEN <<Add(begin, Whole(2 * PI)), end>>
          ELSE <<Sub(begin, Whole(2 * PI)), end>>)
    ELSE <<begin, end>>

\* <<begin, end>> of one axis.
angles_shortest_path(begin, end) == ShortestPathOf(begin, end, Sub(end, begin))

\* The 1e-6 of deconstruct's degenerate guard.
NormEpsilon == <<1, 0, 1000000>>

QIdentity == <<One, Zero, Zero, Zero>>

\* Vector3::new(normalize_angle(e.x), normalize_angle(e.y), normalize_angle(e.z))
normalize_vector(e) == SubSeq([k \in 1..3 |-> normalize_angle(e[k])], 1, 3)

\* The Quternion arm of deconstruct's match, q being the unit quaternion.
QuternionArm(q) == <<q, euler_angles(q)>>

\* The Euler arm of deconstruct's match, e being the normalized vector.
EulerArm(e) == <<from_euler_angles(e[1], e[2], e[3]), e>>

\* deconstruct's `let mut result = match self { ... }`.
Matched(self) ==
    IF self.variant = "Quternion"
    THEN Let(from_quaternion(self.value), LAMBDA q : QuternionArm(q))
    ELSE Let(normalize_vector(self.value), LAMBDA e : EulerArm(e))

\* deconstruct after the match: the degenerate guard on result.0 and the
\* normalization of result.1.
Guarded(result) ==
    << IF Lt(norm_squared(result[1]), NormEpsilon) THEN from_quaternion(QIdentity)
       ELSE result[1],
       normalize_vector(result[2]) >>

\* <<unit quaternion, Euler vector>> of one endpoint.
deconstruct(self) == Let(Matched(self), LAMBDA result : Guarded(result))

\* The Euler angles <<roll, pitch, yaw>> of the seven generators of the
\* winding search, in quarter turns.
GeneratorAngles ==
    << <<0, 0, 0>>,
       <<2 * PI, 0, 0>>, <<-2 * PI, 0, 0>>,
       <<0, 2 * PI, 0>>, <<0, -2 * PI, 0>>,
       <<0, 0, 2 * PI>>, <<0, 0, -2 * PI>> >>

\* The generator of the angles e.
Generator(e) == from_euler_angles(Whole(e[1]), Whole(e[2]), Whole(e[3]))

\* The array qs.
qs == SubSeq([n \in 1..7 |-> Generator(GeneratorAngles[n])], 1, 7)

\* iter.flat_map(|f| gens.iter().map(move |g| f * g)), in iteration order.
FlatMap(iter, gens) ==
    SubSeq([n \in 1..(Len(iter) * Len(gens)) |->
               QMul(iter[((n - 1) \div Len(gens)) + 1], gens[((n - 1) % Len(gens)) + 1])],
           1, Len(iter) * Len(gens))

\* gens.iter().flat_map(..).flat_map(..)
FlatMapTwice(gens) == FlatMap(FlatMap(gens, gens), gens)

\* The 343 composite rotations a, in iteration order.
WindingCandidates == FlatMapTwice(qs)

\* The two items the last flat_map yields for its n-th candidate a.
WindingPair(a, begin_quaternion, end_quaternion, first) ==
    IF first THEN <<QMul(a, begin_quaternion), end_quaternion>>
    ELSE <<begin_quaternion, QMul(a, end_quaternion)>>

\* flat_map(|a| [(a * begin, end), (begin, a * end)]) over candidates, in
\* iteration order.
FlatMapPairs(candidates, begin_quaternion, end_quaternion) ==
    SubSeq([n \in 1..(2 * Len(candidates)) |->
               WindingPair(candidates[((n - 1) \div 2) + 1], begin_quaternion,
                           end_quaternion, n % 2 = 1)],
           1, 2 * Len(candidates))

WindingOptions(begin_quaternion, end_quaternion) ==
    FlatMapPairs(WindingCandidates, begin_quaternion, end_quaternion)

\* (pair.0 - pair.1).norm_squared()
Distance(pair) == Let(QSub(pair[1], pair[2]), LAMBDA difference : norm_squared(difference))

\* A faulty closure: a is kept when the distances are equal, too.
winding_pick_keeping_ties(a, b) ==
    Let(<<Distance(a), Distance(b)>>, LAMBDA d : IF Ge(d[2], d[1]) THEN a ELSE b)

\* The closure given to reduce.
WindingPick(a, b) ==
    Let(<<Distance(a), Distance(b)>>, LAMBDA d : IF Lt(d[1], d[2]) THEN a ELSE b)

\* The left fold of WindingPick over options[lo..hi], starting from acc.  The
\* range is folded as its first half and then its second half, which is the
\* same left fold with a shallow evaluation stack.
RECURSIVE Fold(_, _, _, _)
Fold(options, acc, lo, hi) ==
    IF lo > hi THEN acc
    ELSE IF lo = hi THEN WindingPick(acc, options[lo])
    ELSE Let(Fold(options, acc, lo, (lo + hi) \div 2),
             LAMBDA left : Fold(options, left, ((lo + hi) \div 2) + 1, hi))

\* Iterator::reduce: the first item is the initial accumulator.
Reduce(options) == Let(options, LAMBDA items : Fold(items, items[1], 2, Len(items)))

\* The quaternions of the begin and end pose, b and e being the deconstructed
\* endpoints and eulers the <<begin, end>> of each axis.
Quaternions(begin, b, e, eulers) ==
    IF begin.variant = "Euler"
    THEN << from_euler_angles(eulers[1][1], eulers[2][1], eulers[3][1]),
            from_euler_angles(eulers[1][2], eulers[2][2], eulers[3][2]) >>
    ELSE Reduce(WindingOptions(b[1], e[1]))

\* The returned tuple.
NormalizedAngles(quaternions, eulers) ==
    << quaternions[1], <<eulers[1][1], eulers[2][1], eulers[3][1]>>,
       quaternions[2], <<eulers[1][2], eulers[2][2], eulers[3][2]>> >>

\* angles_shortest_path of each axis of the Euler vectors.
ShortestPaths(begin_euler, end_euler) ==
    SubSeq([k \in 1..3 |-> angles_shortest_path(begin_euler[k], end_euler[k])], 1, 3)

Shortened(begin, b, e, eulers) ==
    Let(Quaternions(begin, b, e, eulers), LAMBDA quaternions : NormalizedAngles(quaternions, eulers))

Deconstructed(begin, b, e) ==
    Let(ShortestPaths(b[2], e[2]), LAMBDA eulers : Shortened(begin, b, e, eulers))

\* <<begin_quaternion, begin_euler, end_quaternion, end_euler>>
get_normalized_angles(begin, end) ==
    Let(<<deconstruct(begin), deconstruct(end)>>, LAMBDA d : Deconstructed(begin, d[1], d[2]))


\* ------------------------------------------------------------ interpolation

\* f32::clamp(x, -1, 1); NaN stays NaN.
clamp(x) ==
    IF IsNaN(x) THEN NaN
    ELSE IF Lt(x, Neg(One)) THEN Neg(One)
    ELSE IF Gt(x, One) THEN One
    ELSE x

\* theta_sin == 0.0, for theta = acos(cos): sin(acos(c)) is 0 exactly at
\* c = 1 and c = -1.
theta_sin_is_zero(cos) == Eq(Mul(cos, cos), One)

\* A weight that is no number of the field.
Symbolic == <<>>

IsSymbolic(x) == Len(x) = 0

\* (u * theta).sin() / theta_sin, for theta_sin # 0.  It is 0 at u = 0 (sin 0
\* over a non-zero number) and 1 at u = 1 (a non-zero number over itself);
\* in between it is no number of the field.
SinRatio(u) ==
    IF IsNaN(u) THEN NaN
    ELSE IF u = Zero THEN Zero
    ELSE IF u = One THEN One
    ELSE Symbolic

\* A faulty SphericalWeights: the weights of the sin theta == 0 branch are
\* the wrong way round.
spherical_weights_swapped(cos, t) ==
    IF theta_sin_is_zero(cos) THEN <<t, Sub(One, t)>>
    ELSE IF IsNaN(cos) THEN <<NaN, NaN>>
    ELSE <<SinRatio(Sub(One, t)), SinRatio(t)>>

\* The weights <<s1, s2>> of the Spherical branch.
SphericalWeights(cos, t) ==
    IF theta_sin_is_zero(cos) THEN <<Sub(One, t), t>>
    ELSE IF IsNaN(cos) THEN <<NaN, NaN>>
    ELSE <<SinRatio(Sub(One, t)), SinRatio(t)>>

\* s1 * begin + s2 * end
Combination(s1, begin, s2, end) ==
    SubSeq([c \in 1..4 |-> Add(Mul(s1, begin[c]), Mul(s2, end[c]))], 1, 4)

\* The Spherical arm with its weights s: a Spherical result whose weights
\* are symbolic is the term <<"slerp", begin, end, t>>.
SphericalArm(begin, end, t, s) ==
    IF IsSymbolic(s[1]) \/ IsSymbolic(s[2]) THEN <<"slerp", begin, end, t>>
    ELSE <<"direction", Combination(s[1], begin, s[2], end)>>

\* The quaternion r that get_quaternions_interpolation hands to
\* UnitQuaternion::from_quaternion, as <<"direction", r>>: the unit quaternion
\* is r/|r|, and |r| need not lie in the number field, so the division is
\* left to InterpolatedRotation.
get_quaternions_interpolation(begin, end, t, interpolation_type) ==
    IF interpolation_type = "Linear"
    THEN <<"direction", Combination(Sub(One, t), begin, t, end)>>
    ELSE Let(clamp(QDot(begin, end)),
             LAMBDA cos : Let(SphericalWeights(cos, t), LAMBDA s : SphericalArm(begin, end, t, s)))

\* The matrix m with every entry divided by n.
MDivide(m, n) == Let(<<m, n>>, LAMBDA v : SubSeq([k \in 1..9 |-> Div(v[1][k], v[2])], 1, 9))

\* r.to_rotation_matrix() of an interpolated quaternion: the matrix of
\* r/|r|, which is the matrix of r over |r|^2 (0/0 = NaN for r = 0);
\* <<"matrix", m>>, or the symbolic term unchanged.
InterpolatedRotation(u) ==
    IF u[1] = "direction"
    THEN <<"matrix", MDivide(to_rotation_matrix(u[2]), norm_squared(u[2]))>>
    ELSE u

\* Rotation3::from_euler_angles(r.x, r.y, r.z) of an interpolated Euler
\* vector: <<"matrix", m>> when every angle is a multiple of 90 degrees (or
\* NaN), else the term <<"euler", r>>.
EulerRotation(r) ==
    IF \A k \in 1..3 : IsNaN(r[k]) \/ IsInteger(r[k])
    THEN <<"matrix", Rotation3_from_euler_angles(r[1], r[2], r[3])>>
    ELSE <<"euler", r>>

\* (1 - x) * a + x * b on Vector3<f32>.
VLerp(a, b, x) == SubSeq([k \in 1..3 |-> Add(Mul(Sub(One, x), a[k]), Mul(x, b[k]))], 1, 3)

\* Matrix4::new_translation(&t) * rotation.to_homogeneous(): the homogeneous
\* matrix with the rotation block and the translation column.
Transform(t, rotation) == [translation |-> t, rotation |-> rotation]

\* ------------------------------------------------------------------ Option

None == <<>>

Some(x) == <<x>>

is_some(o) == o # None

unwrap(o) == o[1]


\* ------------------------------------------------------------------- inputs

Vec3(x, y, z) == <<Whole(x), Whole(y), Whole(z)>>

Quat(w, i, j, k) == <<Whole(w), Whole(i), Whole(j), Whole(k)>>

\* The begin/end poses an animation is built from.  Quaternions need not be
\* normalized; Euler angles are in quarter turns.
Poses ==
    { \* identity to a half turn about z, given as quaternions
      [begin_position |-> Vec3(0, 0, 0), end_position |-> Vec3(1, 2, -3),
       begin_angle |-> new_quternion(Quat(1, 0, 0, 0)),
       end_angle |-> new_quternion(Quat(0, 0, 0, 2))],
      \* the same rotation given as q and as -q
      [begin_position |-> Vec3(1, 0, 0), end_position |-> Vec3(1, 0, 0),
       begin_angle |-> new_quternion(Quat(0, 1, 0, 0)),
       end_angle |-> new_quternion(Quat(0, -1, 0, 0))],
      \* Euler to Euler, across the 0/360 seam and with an extra turn
      [begin_position |-> Vec3(0, 0, 0), end_position |-> Vec3(0, 4, 0),
       begin_angle |-> new_euler(Vec3(0, 0, 0)),
       end_angle |-> new_euler(Vec3(3, 0, 5))],
      \* Euler begin, quaternion end (a quarter turn about x)
      [begin_position |-> Vec3(2, 0, 0), end_position |-> Vec3(0, 0, 2),
       begin_angle |-> new_euler(Vec3(3, 0, 0)),
       end_angle |-> new_quternion(Quat(1, 1, 0, 0))],
      \* quaternion begin (a quarter turn about z), Euler end
      [begin_position |-> Vec3(0, 1, 0), end_position |-> Vec3(0, -1, 0),
       begin_angle |-> new_quternion(Quat(1, 0, 0, 1)),
       end_angle |-> new_euler(Vec3(0, 0, 3))] }

\* The <<begin_angle, end_angle>> of the poses.
PosesAngles == {<<p.begin_angle, p.end_angle>> : p \in Poses}

InterpolationTypes == {"Linear", "Spherical"}

\* The five builder fields besides frames_count / animation_time.
Fields ==
    { [begin_position |-> p.begin_position, end_position |-> p.end_position,
       begin_angle |-> p.begin_angle, end_angle |-> p.end_angle,
       quaternion_interpolation_type |-> ty] : p \in Poses, ty \in InterpolationTypes }

\* frames_count values given to the builder.
FramesCounts == 0..MaxFramesCount

\* animation_time values given to the builder, in ticks.
AnimationTimes == 1..MaxAnimationTime

\* time_elapsed arguments of make_step, in ticks.  The host passes the
\* difference of two wall-clock readings (main.rs:82-84), which is negative
\* when the clock is set back; the trait accepts any f64.
Deltas == (-MaxDelta)..MaxDelta

OptionOf(S) == {None} \cup {Some(x) : x \in S}

\* -------------------------------------------------------------------- panel
\* main's AnimationData and what build_ui makes of it when `run` is clicked.
\* Positions and quaternions are f32 tuples, Euler angles are in degrees,
\* animation_time is in ticks.

\* AnimationData::new()
AnimationData_new ==
    [begin_position |-> Vec3(0, 0, 0),
     end_position |-> Vec3(0, 0, 0),
     begin_rotation_quaternion |-> Quat(1, 0, 0, 0),
     end_rotation_quaternion |-> Quat(1, 0, 0, 0),
     begin_rotation_xyz |-> Vec3(0, 0, 0),
     end_rotation_xyz |-> Vec3(0, 0, 0),
     quaternion_interpolation_type |-> "Linear",
     display_all_frames |-> FALSE,
     animation_time |-> 10,
     frames_count |-> 10]

\* What the user's edits make of the panel.  frames_count stays in 2..=255
\* and animation_time in 0.1..=300.0, the ranges of their DragValues.
Panels ==
    { \* a quarter turn about z back to the identity, all frames shown
      [AnimationData_new EXCEPT !.end_position = Vec3(1, 2, -3),
                                !.begin_rotation_quaternion = Quat(1, 0, 0, 1),
                                !.display_all_frames = TRUE,
                                !.frames_count = MaxFramesCount],
      \* the same poses, animated in time
      [AnimationData_new EXCEPT !.end_position = Vec3(1, 2, -3),
                                !.begin_rotation_quaternion = Quat(1, 0, 0, 1),
                                !.animation_time = MaxAnimationTime],
      \* the identity to a half turn about z (not normalized), Spherical
      [AnimationData_new EXCEPT !.end_rotation_quaternion = Quat(0, 0, 0, 2),
                                !.quaternion_interpolation_type = "Spherical",
                                !.display_all_frames = TRUE,
                                !.frames_count = 2],
      \* Euler angles across the 0/360 seam and with an extra turn
      [AnimationData_new EXCEPT !.end_position = Vec3(0, 4, 0),
                                !.end_rotation_xyz = Vec3(270, 0, 450),
                                !.display_all_frames = TRUE,
                                !.frames_count = 3],
      \* the same Euler angles, animated in time
      [AnimationData_new EXCEPT !.end_rotation_xyz = Vec3(270, 0, 450),
                                !.animation_time = 1] }

\* Vector3::new(position.0, position.1, position.2)
PanelPosition(position) == <<position[1], position[2], position[3]>>

\* angle / 180f32 * PI, of an angle in degrees.
Radians(angle) == Mul(Div(angle, Whole(180)), Whole(PI))

\* AnimationAngle::new_euler(Vector3::new(xyz.0 / 180f32 * PI, ..))
PanelEuler(xyz) == new_euler(<<Radians(xyz[1]), Radians(xyz[2]), Radians(xyz[3])>>)

\* The builder fields that do not depend on the button or the mode.
PanelFields(data, begin_angle, end_angle) ==
    [begin_position |-> PanelPosition(data.begin_position),
     end_position |-> PanelPosition(data.end_position),
     begin_angle |-> begin_angle,
     end_angle |-> end_angle,
     quaternion_interpolation_type |-> data.quaternion_interpolation_type]

\* The setters of the quaternion panel's `run` with display_all_frames: the
\* fourth argument of the end Quaternion::new is begin_rotation_quaternion.3.
DiscreteQuaternionFields(data) ==
    PanelFields(data,
                new_quternion(<<data.begin_rotation_quaternion[1],
                                data.begin_rotation_quaternion[2],
                                data.begin_rotation_quaternion[3],
                                data.begin_rotation_quaternion[4]>>),
                new_quternion(<<data.end_rotation_quaternion[1],
                                data.end_rotation_quaternion[2],
                                data.end_rotation_quaternion[3],
                                data.begin_rotation_quaternion[4]>>))

\* The setters of the quaternion panel's `run` without display_all_frames.
ContinuousQuaternionFields(data) ==
    PanelFields(data,
                new_quternion(<<data.begin_rotation_quaternion[1],
                                data.begin_rotation_quaternion[2],
                                data.begin_rotation_quaternion[3],
                                data.begin_rotation_quaternion[4]>>),
                new_quternion(<<data.end_rotation_quaternion[1],
                                data.end_rotation_quaternion[2],
                                data.end_rotation_quaternion[3],
                                data.end_rotation_quaternion[4]>>))

\* The setters of the Euler panel's `run`, the same in both modes.
EulerFields(data) ==
    PanelFields(data, PanelEuler(data.begin_rotation_xyz), PanelEuler(data.end_rotation_xyz))

\* The <<begin_angle, end_angle>> main can build an animation from.
PanelsAngles ==
    {<<f.begin_angle, f.end_angle>> :
         f \in UNION {{DiscreteQuaternionFields(data), ContinuousQuaternionFields(data),
                       EulerFields(data)} : data \in Panels \cup {AnimationData_new}}}

\* ------------------------------------------------- DiscreteFrameAnimation

\* get_normalized_angles is a pure function of the two angles; a
\* DiscreteFrameAnimation calls it in its first make_step and a
\* ContinuousAnimation afresh in every query.  Its values on the modelled
\* poses and on those of the panel are computed once and looked up by these
\* calls.
NormalizedAnglesOfPoses ==
    [p \in PosesAngles \cup PanelsAngles |-> get_normalized_angles(p[1], p[2])]

\* AnimationAngle::get_normalized_angles(&self.begin_angle, &self.end_angle)
ResolvedAngles(self) == NormalizedAnglesOfPoses[<<self.begin_angle, self.end_angle>>]

\* A faulty Fraction: the frame index over the frame count, not over the
\* last index.
fraction_of_count(f, frames_count) == Div(Whole(f), Whole(frames_count))

\* x = f as f32 / (self.frames_count - 1) as f32.  The closure runs only for
\* f < frames_count, so frames_count - 1 is never taken of 0.
Fraction(f, frames_count) == Div(Whole(f), Whole(frames_count - 1))

\* A faulty FrameIndices: the inclusive range 0..=self.frames_count.
inclusive_range(frames_count) == 0..frames_count

\* The range 0..self.frames_count.
FrameIndices(frames_count) == 0..(frames_count - 1)

\* The closure of the quaternion-path map at x; angles is
\* get_normalized_angles' tuple.
QuaternionFrameAt(self, angles, x) ==
    Transform(VLerp(self.begin_position, self.end_position, x),
              Let(get_quaternions_interpolation(angles[1], angles[3], x,
                                                self.quaternion_interpolation_type),
                  LAMBDA r : InterpolatedRotation(r)))

\* The closure of the Euler-path map at x.
EulerFrameAt(self, angles, x) ==
    Transform(VLerp(self.begin_position, self.end_position, x),
              Let(VLerp(angles[2], angles[4], x), LAMBDA r : EulerRotation(r)))

\* One item of the quaternion-path map.
QuaternionFrame(self, angles, f) ==
    Let(Fraction(f, self.frames_count), LAMBDA x : QuaternionFrameAt(self, angles, x))

\* One item of the Euler-path map.
EulerFrame(self, angles, f) ==
    Let(Fraction(f, self.frames_count), LAMBDA x : EulerFrameAt(self, angles, x))

\* (0..self.frames_count).map(..).collect(): frame f is item f + 1.
QuaternionFrames(self, angles) ==
    SubSeq([n \in {f + 1 : f \in FrameIndices(self.frames_count)} |->
               QuaternionFrame(self, angles, n - 1)],
           1, Cardinality(FrameIndices(self.frames_count)))

EulerFrames(self, angles) ==
    SubSeq([n \in {f + 1 : f \in FrameIndices(self.frames_count)} |->
               EulerFrame(self, angles, n - 1)],
           1, Cardinality(FrameIndices(self.frames_count)))

\* make_step past its guard, angles being get_normalized_angles' tuple.
FillCaches(self, angles) ==
    [self EXCEPT !.quaternion_frames = Some(QuaternionFrames(self, angles)),
                 !.euler_frames = Some(EulerFrames(self, angles))]

\* A faulty make_step: it fills euler_frames and leaves quaternion_frames
\* as it was.
make_step_filling_euler_frames(self, time_elapsed) ==
    IF is_some(self.euler_frames) THEN self
    ELSE Let(ResolvedAngles(self),
             LAMBDA angles : [self EXCEPT !.euler_frames = Some(EulerFrames(self, angles))])

\* A faulty make_step: a call in which no time has passed is skipped.
make_step_when_time_passes(self, time_elapsed) ==
    IF is_some(self.euler_frames) \/ time_elapsed <= 0 THEN self
    ELSE Let(ResolvedAngles(self), LAMBDA angles : FillCaches(self, angles))

\* A faulty make_step: a call on a filled cache drops the cache instead of
\* returning.
make_step_dropping_cache(self, time_elapsed) ==
    IF is_some(self.euler_frames)
    THEN [self EXCEPT !.quaternion_frames = None, !.euler_frames = None]
    ELSE Let(ResolvedAngles(self), LAMBDA angles : FillCaches(self, angles))

\* DiscreteFrameAnimation::make_step(&mut self, _time_elapsed): self afterwards.
Discrete_make_step(self, time_elapsed) ==
    IF is_some(self.euler_frames) THEN self
    ELSE Let(ResolvedAngles(self), LAMBDA angles : FillCaches(self, angles))

\* A faulty unwrap: Option::unwrap_or_default, an empty Vec for an absent cache.
unwrap_or_default(frames) ==
    [status |-> "Returned", value |-> IF is_some(frames) THEN unwrap(frames) ELSE <<>>]

\* Option::unwrap of a cloned cache: the Vec, or a panic.
UnwrapFrames(frames) ==
    IF is_some(frames) THEN [status |-> "Returned", value |-> unwrap(frames)]
    ELSE [status |-> "Panic", value |-> <<>>]

Discrete_get_quaternion_frames(self) == UnwrapFrames(self.quaternion_frames)

Discrete_get_euler_frames(self) == UnwrapFrames(self.euler_frames)

\* A faulty validate: the threshold off by one, fc >= 1.
validate_at_least_one(frames_count) ==
    IF is_some(frames_count)
    THEN (IF unwrap(frames_count) >= 1 THEN "Ok" ELSE "Frames count too low")
    ELSE "Ok"

\* DiscreteFrameAnimationBuilder::validate; frames_count is the builder's
\* Option<u8>.
validate(frames_count) ==
    IF is_some(frames_count)
    THEN (IF unwrap(frames_count) >= 2 THEN "Ok" ELSE "Frames count too low")
    ELSE "Ok"

\* The derived build(): validate first, then every field without
\* #[builder(setter(skip))] must have been set; the skipped fields take their
\* Default (None).  frames_count is the builder's Option<u8>; fields is Some
\* of the other five fields when all of them were set, None when one was not.
DiscreteFrameAnimationBuilder_build(frames_count, fields) ==
    IF validate(frames_count) # "Ok"
    THEN [status |-> "ValidationError", value |-> None]
    ELSE IF ~is_some(frames_count) \/ ~is_some(fields)
    THEN [status |-> "UninitializedField", value |-> None]
    ELSE [status |-> "Ok",
          value |-> Some([type |-> "Discrete",
                          begin_position |-> unwrap(fields).begin_position,
                          end_position |-> unwrap(fields).end_position,
                          frames_count |-> unwrap(frames_count),
                          begin_angle |-> unwrap(fields).begin_angle,
                          end_angle |-> unwrap(fields).end_angle,
                          quaternion_interpolation_type |->
                              unwrap(fields).quaternion_interpolation_type,
                          quaternion_frames |-> None,
                          euler_frames |-> None])]

\* The derived DiscreteFrameAnimation::new (#[derive(new)]): every field of
\* the struct is an argument, the two caches included, and none is checked.
DiscreteFrameAnimation_new(begin_position, end_position, frames_count, begin_angle, end_angle, quaternion_interpolation_type, quaternion_frames, euler_frames) ==
    [type |-> "Discrete",
     begin_position |-> begin_position,
     end_position |-> end_position,
     frames_count |-> frames_count,
     begin_angle |-> begin_angle,
     end_angle |-> end_angle,
     quaternion_interpolation_type |-> quaternion_interpolation_type,
     quaternion_frames |-> quaternion_frames,
     euler_frames |-> euler_frames]

\* ----------------------------------------------------- ContinuousAnimation

\* A faulty make_step: the sum without the clamp to animation_time.
make_step_unclamped(self, time_elapsed) ==
    [self EXCEPT !.time_elapsed = self.time_elapsed + time_elapsed]

\* A faulty make_step: it counts animation_time down, not time_elapsed up.
make_step_counting_down(self, time_elapsed) ==
    [self EXCEPT !.animation_time = self.animation_time - time_elapsed]

\* ContinuousAnimation::make_step(&mut self, time_elapsed): self afterwards.
Continuous_make_step(self, time_elapsed) ==
    LET sum == self.time_elapsed + time_elapsed
    IN  [self EXCEPT !.time_elapsed = IF sum >= self.animation_time
                                      THEN self.animation_time
                                      ELSE sum]

\* x = (self.time_elapsed / self.animation_time) as f32
ElapsedFraction(self) == Div(Whole(self.time_elapsed), Whole(self.animation_time))

\* A faulty get_quaternion_frames: the transform of the begin pose, whatever
\* time has elapsed.
quaternion_frames_at_begin(self) ==
    Let(ResolvedAngles(self),
        LAMBDA angles : <<QuaternionFrameAt(self, angles, Zero)>>)

\* ContinuousAnimation::get_quaternion_frames: a Vec of one transform.
Continuous_get_quaternion_frames(self) ==
    Let(<<ResolvedAngles(self), ElapsedFraction(self)>>,
        LAMBDA v : <<QuaternionFrameAt(self, v[1], v[2])>>)

\* ContinuousAnimation::get_euler_frames: a Vec of one transform.
Continuous_get_euler_frames(self) ==
    Let(<<ResolvedAngles(self), ElapsedFraction(self)>>,
        LAMBDA v : <<EulerFrameAt(self, v[1], v[2])>>)

\* The derived build() of ContinuousAnimationBuilder: no validation;
\* time_elapsed is skipped and takes its Default, 0.0.
ContinuousAnimationBuilder_build(animation_time, fields) ==
    IF ~is_some(animation_time) \/ ~is_some(fields)
    THEN [status |-> "UninitializedField", value |-> None]
    ELSE [status |-> "Ok",
          value |-> Some([type |-> "Continuous",
                          begin_position |-> unwrap(fields).begin_position,
                          end_position |-> unwrap(fields).end_position,
                          animation_time |-> unwrap(animation_time),
                          begin_angle |-> unwrap(fields).begin_angle,
                          end_angle |-> unwrap(fields).end_angle,
                          quaternion_interpolation_type |->
                              unwrap(fields).quaternion_interpolation_type,
                          time_elapsed |-> 0])]


\* -------------------------------------------------------------------- state

VARIABLES
    animation,  \* Option of the instance: a DiscreteFrameAnimation or a ContinuousAnimation
    outcome,    \* the last operation: its name, argument, status and result
    steps,      \* make_step calls made on the instance
    delta_sum,  \* the sum of the time deltas given to a ContinuousAnimation
    animation_data,  \* main's AnimationData: what the panel shows
    pc          \* main's position in its redraw closure

vars == <<animation, outcome, steps, delta_sum, animation_data, pc>>

\* The variables of main besides the animation.  The operations of the
\* animation do not read or write them.
host_vars == <<animation_data, pc>>

Init ==
    /\ animation = None
    /\ outcome = [op |-> "none", arg |-> <<>>, status |-> "Ok", value |-> <<>>]
    /\ steps = 0
    /\ delta_sum = 0
    /\ animation_data = AnimationData_new
    /\ pc = "build_ui"

\* A panic ends the program, and so does a failed build: the caller unwraps
\* the builder's result (main.rs:413).
Running == outcome.status \in {"Ok", "Returned"}

IsDiscrete == is_some(animation) /\ unwrap(animation).type = "Discrete"

IsContinuous == is_some(animation) /\ unwrap(animation).type = "Continuous"

\* A behaviour follows one instance from its build on.  A successful build
\* yields the instance; a failed one yields none.  arg is the builder's
\* frames_count / animation_time and whether the other fields were set.
Built(op, arg, result) ==
    /\ outcome' = [op |-> op, arg |-> arg, status |-> result.status, value |-> <<>>]
    /\ animation' = result.value
    /\ UNCHANGED <<steps, delta_sum, host_vars>>

BuildDiscrete ==
    /\ Running /\ animation = None
    /\ \E frames_count \in OptionOf(FramesCounts), fields \in OptionOf(Fields) :
          Built("DiscreteFrameAnimationBuilder::build",
                <<frames_count, is_some(fields)>>,
                DiscreteFrameAnimationBuilder_build(frames_count, fields))

BuildContinuous ==
    /\ Running /\ animation = None
    /\ \E animation_time \in OptionOf(AnimationTimes), fields \in OptionOf(Fields) :
          Built("ContinuousAnimationBuilder::build",
                <<animation_time, is_some(fields)>>,
                ContinuousAnimationBuilder_build(animation_time, fields))

Stepped(op, time_elapsed, next) ==
    /\ animation' = Some(next)
    /\ outcome' = [op |-> op, arg |-> <<time_elapsed>>, status |-> "Ok", value |-> <<>>]
    /\ steps' = steps + 1
    /\ UNCHANGED host_vars

DiscreteMakeStep ==
    /\ Running /\ IsDiscrete /\ steps < MaxSteps
    /\ \E time_elapsed \in Deltas :
          /\ Stepped("DiscreteFrameAnimation::make_step", time_elapsed,
                     Discrete_make_step(unwrap(animation), time_elapsed))
          /\ UNCHANGED delta_sum

ContinuousMakeStep ==
    /\ Running /\ IsContinuous /\ steps < MaxSteps
    /\ \E time_elapsed \in Deltas :
          /\ Stepped("ContinuousAnimation::make_step", time_elapsed,
                     Continuous_make_step(unwrap(animation), time_elapsed))
          /\ delta_sum' = delta_sum + time_elapsed

Queried(op, result) ==
    /\ outcome' = [op |-> op, arg |-> <<>>, status |-> result.status, value |-> result.value]
    /\ UNCHANGED <<animation, steps, delta_sum, host_vars>>

DiscreteGetQuaternionFrames ==
    /\ Running /\ IsDiscrete
    /\ Queried("DiscreteFrameAnimation::get_quaternion_frames",
               Discrete_get_quaternion_frames(unwrap(animation)))

DiscreteGetEulerFrames ==
    /\ Running /\ IsDiscrete
    /\ Queried("DiscreteFrameAnimation::get_euler_frames",
               Discrete_get_euler_frames(unwrap(animation)))

\* The Continuous queries return their Vec; they have no panicking path.
Returned(frames) == [status |-> "Returned", value |-> frames]

ContinuousGetQuaternionFrames ==
    /\ Running /\ IsContinuous
    /\ Queried("ContinuousAnimation::get_quaternion_frames",
               Returned(Continuous_get_quaternion_frames(unwrap(animation))))

ContinuousGetEulerFrames ==
    /\ Running /\ IsContinuous
    /\ Queried("ContinuousAnimation::get_euler_frames",
               Returned(Continuous_get_euler_frames(unwrap(animation))))

Next ==
    \/ BuildDiscrete
    \/ BuildContinuous
    \/ DiscreteMakeStep
    \/ ContinuousMakeStep
    \/ DiscreteGetQuaternionFrames
    \/ DiscreteGetEulerFrames
    \/ ContinuousGetQuaternionFrames
    \/ ContinuousGetEulerFrames

Spec == Init /\ [][Next]_vars

\* ------------------------------------------------------------- constructors
\* The host builds its animations with the builders.  DiscreteFrameAnimation
\* also has the derived constructor `new`, which other code of the crate can
\* call; this specification follows an instance made in either way.

\* The caches given to `new`: absent, or an empty Vec.
CacheArguments == OptionOf({<<>>})

NewDiscrete ==
    /\ Running /\ animation = None
    /\ \E frames_count \in FramesCounts, fields \in Fields,
          quaternion_frames \in CacheArguments, euler_frames \in CacheArguments :
          Built("DiscreteFrameAnimation::new",
                <<Some(frames_count), TRUE>>,
                [status |-> "Ok",
                 value |-> Some(DiscreteFrameAnimation_new(
                                    fields.begin_position, fields.end_position,
                                    frames_count, fields.begin_angle, fields.end_angle,
                                    fields.quaternion_interpolation_type,
                                    quaternion_frames, euler_frames))])

ConstructNext ==
    \/ BuildDiscrete
    \/ NewDiscrete
    \/ DiscreteMakeStep
    \/ DiscreteGetQuaternionFrames
    \/ DiscreteGetEulerFrames

ConstructSpec == Init /\ [][ConstructNext]_vars

\* --------------------------------------------------------------------- main
\* The redraw closure of main: build_ui, then make_step and
\* get_quaternion_frames for the left viewport, then get_euler_frames for the
\* right one.  The closure runs on one thread; pc names the call it makes
\* next.  One behaviour follows the window through its redraws.

\* What the user does in the panel during one build_ui: nothing, an edit
\* that leaves the panel as data, or a click on one of the two `run` buttons.
NoInput == [kind |-> "none"]

Edit(data) == [kind |-> "edit", data |-> data]

RunQuaternionClicked == [kind |-> "run", button |-> "quaternion"]

RunEulerClicked == [kind |-> "run", button |-> "euler"]

Inputs == {NoInput, RunQuaternionClicked, RunEulerClicked} \cup {Edit(data) : data \in Panels}

\* The builder call of the quaternion panel's `run`.
RunQuaternion(data) ==
    IF data.display_all_frames
    THEN DiscreteFrameAnimationBuilder_build(Some(data.frames_count),
                                             Some(DiscreteQuaternionFields(data)))
    ELSE ContinuousAnimationBuilder_build(Some(data.animation_time),
                                          Some(ContinuousQuaternionFields(data)))

\* The builder call of the Euler panel's `run`.
RunEuler(data) ==
    IF data.display_all_frames
    THEN DiscreteFrameAnimationBuilder_build(Some(data.frames_count), Some(EulerFields(data)))
    ELSE ContinuousAnimationBuilder_build(Some(data.animation_time), Some(EulerFields(data)))

\* *animation = Some(Box::new(a)) with a = builder.build().unwrap(): the new
\* instance replaces the current one; unwrap panics on a failed build.
Run(input, result) ==
    /\ outcome' = [op |-> "build_ui", arg |-> <<input>>,
                   status |-> IF result.status = "Ok" THEN "Ok" ELSE "Panic",
                   value |-> <<>>]
    /\ animation' = IF result.status = "Ok" THEN result.value ELSE animation
    /\ steps' = 0
    /\ delta_sum' = 0
    /\ animation_data' = animation_data

\* build_ui.  The redraw of an instance that has had MaxSteps make_step
\* calls is not followed further.
BuildUi ==
    /\ Running /\ pc = "build_ui"
    /\ \E input \in Inputs :
          /\ input.kind = "run" \/ steps < MaxSteps
          /\ IF input.kind = "run"
             THEN Run(input, IF input.button = "quaternion"
                             THEN RunQuaternion(animation_data)
                             ELSE RunEuler(animation_data))
             ELSE /\ outcome' = [op |-> "build_ui", arg |-> <<input>>, status |-> "Ok",
                                 value |-> <<>>]
                  /\ animation_data' = IF input.kind = "edit" THEN input.data
                                       ELSE animation_data
                  /\ UNCHANGED <<animation, steps, delta_sum>>
    /\ pc' = "make_step"

\* A faulty Animation_make_step: the call is left out.
make_step_left_out(self, time_elapsed) == self

\* a.make_step(duration_in_seconds) on the Box<dyn Animation>.
Animation_make_step(self, time_elapsed) ==
    IF self.type = "Discrete" THEN Discrete_make_step(self, time_elapsed)
    ELSE Continuous_make_step(self, time_elapsed)

\* a.get_quaternion_frames() on the Box<dyn Animation>.
Animation_get_quaternion_frames(self) ==
    IF self.type = "Discrete" THEN Discrete_get_quaternion_frames(self)
    ELSE Returned(Continuous_get_quaternion_frames(self))

\* a.get_euler_frames() on the Box<dyn Animation>.
Animation_get_euler_frames(self) ==
    IF self.type = "Discrete" THEN Discrete_get_euler_frames(self)
    ELSE Returned(Continuous_get_euler_frames(self))

\* The first `if animation.is_some()`: make_step with the time since the
\* previous redraw.
RedrawMakeStep ==
    /\ Running /\ pc = "make_step" /\ is_some(animation)
    /\ \E duration_in_seconds \in Deltas :
          /\ animation' = Some(Animation_make_step(unwrap(animation), duration_in_seconds))
          /\ outcome' = [op |-> "Animation::make_step", arg |-> <<duration_in_seconds>>,
                         status |-> "Ok", value |-> <<>>]
          /\ steps' = steps + 1
          /\ delta_sum' = IF unwrap(animation).type = "Continuous"
                          THEN delta_sum + duration_in_seconds
                          ELSE delta_sum
    /\ pc' = "get_quaternion_frames"
    /\ UNCHANGED animation_data

\* A query of the redraw, after which the closure is at next.
RedrawQueried(op, result, next) ==
    /\ outcome' = [op |-> op, arg |-> <<>>, status |-> result.status, value |-> result.value]
    /\ pc' = next
    /\ UNCHANGED <<animation, steps, delta_sum, animation_data>>

\* The loop over a.get_quaternion_frames() of the left viewport.
RedrawGetQuaternionFrames ==
    /\ Running /\ pc = "get_quaternion_frames"
    /\ RedrawQueried("Animation::get_quaternion_frames",
                     Animation_get_quaternion_frames(unwrap(animation)),
                     "get_euler_frames")

\* The second `if animation.is_some()`: the loop over a.get_euler_frames() of
\* the right viewport; the redraw ends.
RedrawGetEulerFrames ==
    /\ Running /\ pc = "get_euler_frames"
    /\ RedrawQueried("Animation::get_euler_frames",
                     Animation_get_euler_frames(unwrap(animation)),
                     "build_ui")

\* Both else branches: with no animation the block is drawn unmoved in both
\* viewports and no method of an animation is called; the redraw ends.
RedrawWithoutAnimation ==
    /\ Running /\ pc = "make_step" /\ animation = None
    /\ outcome' = [op |-> "redraw", arg |-> <<>>, status |-> "Ok", value |-> <<>>]
    /\ pc' = "build_ui"
    /\ UNCHANGED <<animation, steps, delta_sum, animation_data>>

MainNext ==
    \/ BuildUi
    \/ RedrawMakeStep
    \/ RedrawGetQuaternionFrames
    \/ RedrawGetEulerFrames
    \/ RedrawWithoutAnimation

MainSpec == Init /\ [][MainNext]_vars

\* ----------------------------------------------------------- function calls
\* The functions of animation.rs that read no animation, each called on
\* inputs of a bounded set.  A behaviour is one call: outcome holds the
\* function and its arguments, and then what it returned.  The other
\* variables keep their initial values.

\* Angles in [0, 2 * PI), in steps of 1/AngleSteps of a quarter turn.
WrappedAngles == {Num(k, 0, AngleSteps) : k \in 0..(TAU * AngleSteps - 1)}

Called(op, arg) == [op |-> op, arg |-> arg, status |-> "Called", value |-> <<>>]

ShortestPathOp == "AnimationAngle::angles_shortest_path"

\* The calls of angles_shortest_path: deconstruct has wrapped both angles
\* of an axis into [0, 2 * PI).
ShortestPathCalls == {Called(ShortestPathOp, <<begin, end>>) : begin, end \in WrappedAngles}

\* The initial states of a specification of the calls of the set calls.
CallOf(calls) ==
    /\ animation = None
    /\ outcome \in calls
    /\ steps = 0
    /\ delta_sum = 0
    /\ animation_data = AnimationData_new
    /\ pc = "build_ui"

\* The called function op returns value.
Returns(op, value) ==
    /\ outcome.op = op /\ outcome.status = "Called"
    /\ outcome' = [outcome EXCEPT !.status = "Returned", !.value = value]
    /\ UNCHANGED <<animation, steps, delta_sum, host_vars>>

ShortestPathInit == CallOf(ShortestPathCalls)

AnglesShortestPath ==
    Returns(ShortestPathOp, angles_shortest_path(outcome.arg[1], outcome.arg[2]))

ShortestPathNext ==
    \/ AnglesShortestPath

ShortestPathSpec == ShortestPathInit /\ [][ShortestPathNext]_vars

\* A quaternion of squared norm 1/4000000, below the 1e-6 of deconstruct.
TinyQuaternion == <<Zero, Num(1, 0, 2000), Zero, Zero>>

\* The angles deconstruct and get_normalized_angles are called on: those of
\* the poses, the quaternion -1, the zero quaternion (every field of the
\* panel's quaternion set to 0) and a quaternion next to it.
AngleInputs ==
    {p[1] : p \in PosesAngles} \cup {p[2] : p \in PosesAngles}
        \cup {new_quternion(Quat(-1, 0, 0, 0)), new_quternion(Quat(0, 0, 0, 0)),
              new_quternion(TinyQuaternion)}

DeconstructOp == "AnimationAngle::deconstruct"

DeconstructCalls == {Called(DeconstructOp, <<angle>>) : angle \in AngleInputs}

NormalizedAnglesOp == "AnimationAngle::get_normalized_angles"

NormalizedAnglesCalls ==
    {Called(NormalizedAnglesOp, <<begin, end>>) : begin, end \in AngleInputs}

AnglesInit == CallOf(DeconstructCalls \cup NormalizedAnglesCalls)

Deconstruct == Returns(DeconstructOp, deconstruct(outcome.arg[1]))

GetNormalizedAngles ==
    Returns(NormalizedAnglesOp, get_normalized_angles(outcome.arg[1], outcome.arg[2]))

AnglesNext ==
    \/ Deconstruct
    \/ GetNormalizedAngles

AnglesSpec == AnglesInit /\ [][AnglesNext]_vars

\* Unit quaternions: those of the Euler angles of roll 0..7, pitch 0..1 and
\* yaw 0..1 quarter turns, q and -q among them.
UnitQuaternions ==
    {from_euler_angles(Whole(roll), Whole(pitch), Whole(yaw)) :
         roll \in 0..7, pitch \in 0..1, yaw \in 0..1}

\* The fractions t: both ends and the middle.
Fractions == {Zero, Num(1, 0, 2), One}

InterpolationOp == "get_quaternions_interpolation"

InterpolationCalls ==
    {Called(InterpolationOp, <<begin, end, t, interpolation_type>>) :
         begin \in UnitQuaternions, end \in UnitQuaternions, t \in Fractions,
         interpolation_type \in InterpolationTypes}

InterpolationInit == CallOf(InterpolationCalls)

GetQuaternionsInterpolation ==
    Returns(InterpolationOp,
            get_quaternions_interpolation(outcome.arg[1], outcome.arg[2], outcome.arg[3],
                                          outcome.arg[4]))

InterpolationNext ==
    \/ GetQuaternionsInterpolation

InterpolationSpec == InterpolationInit /\ [][InterpolationNext]_vars

\* --------------------------------------------------------------- properties

\* The instance.
Current == unwrap(animation)

\* The cache states of a DiscreteFrameAnimation.
Pending ==
    IsDiscrete /\ ~is_some(Current.quaternion_frames) /\ ~is_some(Current.euler_frames)

Ready == IsDiscrete /\ is_some(Current.quaternion_frames) /\ is_some(Current.euler_frames)

\* The step from the state to the next state is a make_step call.
MakeStepCalled == steps' = steps + 1

DiscreteMakeStepOp == "DiscreteFrameAnimation::make_step"

ContinuousMakeStepOp == "ContinuousAnimation::make_step"

QueryOps ==
    {"DiscreteFrameAnimation::get_quaternion_frames", "DiscreteFrameAnimation::get_euler_frames"}

\* C1: the first make_step of a DiscreteFrameAnimation takes the cache from
\* Pending to Ready; every later make_step, whatever its time argument,
\* leaves the instance and so both cached sequences as they were; and no
\* operation takes a Ready cache back to Pending.
C1_CacheBuiltOnceAndKept ==
    [][IsDiscrete =>
          /\ (MakeStepCalled /\ steps = 0 => Pending /\ Ready')
          /\ (MakeStepCalled /\ steps > 0 => Ready /\ Current' = Current)
          /\ (Ready => Ready')]_vars

\* A second or later make_step has been made on a Ready cache.
C1_LaterStepMade == Ready /\ steps >= 2 /\ outcome.op = DiscreteMakeStepOp

\* The cache a query of the outcome's name reads.
QueriedCache ==
    IF outcome.op = "DiscreteFrameAnimation::get_quaternion_frames"
    THEN Current.quaternion_frames
    ELSE Current.euler_frames

\* C2: get_quaternion_frames and get_euler_frames on a DiscreteFrameAnimation
\* panic when no make_step has been made, and return the cached sequence
\* when at least one has.
C2_QueryPanicsBeforeFirstStep ==
    IsDiscrete /\ outcome.op \in QueryOps =>
        IF steps = 0 THEN outcome.status = "Panic"
        ELSE outcome.status = "Returned" /\ outcome.value = unwrap(QueriedCache)

\* A query made before any make_step has panicked.
C2_QueryPanicked ==
    IsDiscrete /\ steps = 0 /\ outcome.op \in QueryOps /\ outcome.status = "Panic"

DiscreteBuildOp == "DiscreteFrameAnimationBuilder::build"

\* C3: a build with frames_count 0 or 1 fails with a validation error and
\* yields no instance; a build with frames_count >= 2 and every other field
\* set succeeds and yields an instance of that frames_count.
C3_BuilderValidatesFramesCount ==
    outcome.op = DiscreteBuildOp /\ is_some(outcome.arg[1]) =>
        IF unwrap(outcome.arg[1]) < 2
        THEN outcome.status = "ValidationError" /\ animation = None
        ELSE outcome.arg[2] =>
                 /\ outcome.status = "Ok"
                 /\ IsDiscrete
                 /\ Current.frames_count = unwrap(outcome.arg[1])

\* A build with frames_count 1 and every other field set has been rejected.
C3_BuildRejected ==
    /\ outcome.op = DiscreteBuildOp
    /\ outcome.arg = <<Some(1), TRUE>>
    /\ outcome.status = "ValidationError"

\* C4: once make_step has been called on a DiscreteFrameAnimation, the
\* quaternion-path sequence and the Euler-path sequence each hold exactly
\* frames_count transforms.
C4_FramesCountTransforms ==
    IsDiscrete /\ steps >= 1 =>
        /\ Ready
        /\ Len(unwrap(Current.quaternion_frames)) = Current.frames_count
        /\ Len(unwrap(Current.euler_frames)) = Current.frames_count

\* The cache of an instance of three frames has been built.
C4_ThreeFramesBuilt ==
    /\ Ready
    /\ Current.frames_count = 3
    /\ Len(unwrap(Current.quaternion_frames)) = 3
    /\ Len(unwrap(Current.euler_frames)) = 3

\* The rotation matrix of a pose's angle: of the normalized quaternion, or of
\* the Euler angles.
PoseRotation(angle) ==
    IF angle.variant = "Quternion" THEN to_rotation_matrix(from_quaternion(angle.value))
    ELSE Rotation3_from_euler_angles(angle.value[1], angle.value[2], angle.value[3])

\* The transform of a pose.
PoseTransform(position, angle) == Transform(position, <<"matrix", PoseRotation(angle)>>)

\* frames[1] is the begin-pose transform and the last item the end-pose one.
RunsFromBeginToEnd(frames) ==
    /\ frames[1] = PoseTransform(Current.begin_position, Current.begin_angle)
    /\ frames[Current.frames_count] = PoseTransform(Current.end_position, Current.end_angle)

\* C5: with frames_count = N >= 2 the fraction of frame f is 0 for f = 0,
\* 1 for f = N - 1 and strictly increasing in f; and in the quaternion-path
\* and in the Euler-path sequence frame 0 is the begin-pose transform and
\* frame N - 1 the end-pose transform.
C5_FramesRunFromBeginToEnd ==
    Ready =>
        /\ Fraction(0, Current.frames_count) = Zero
        /\ Fraction(Current.frames_count - 1, Current.frames_count) = One
        /\ \A f \in 0..(Current.frames_count - 2) :
               Lt(Fraction(f, Current.frames_count), Fraction(f + 1, Current.frames_count))
        /\ RunsFromBeginToEnd(unwrap(Current.quaternion_frames))
        /\ RunsFromBeginToEnd(unwrap(Current.euler_frames))

\* The cache of an instance of three frames whose poses differ has been
\* built, and its last frames are the end-pose transform.
C5_EndPoseReached ==
    /\ Ready
    /\ Current.frames_count = 3
    /\ PoseTransform(Current.begin_position, Current.begin_angle)
           # PoseTransform(Current.end_position, Current.end_angle)
    /\ unwrap(Current.quaternion_frames)[3]
           = PoseTransform(Current.end_position, Current.end_angle)
    /\ unwrap(Current.euler_frames)[3]
           = PoseTransform(Current.end_position, Current.end_angle)

Min(a, b) == IF a <= b THEN a ELSE b

\* C6: ContinuousAnimation::make_step(dt) sets time_elapsed to
\* min(old time_elapsed + dt, animation_time).
C6_StepIsClampedSum ==
    [][IsContinuous /\ MakeStepCalled =>
          Current'.time_elapsed
              = Min(Current.time_elapsed + outcome'.arg[1], Current.animation_time)]_vars

\* A make_step has been clamped: the deltas sum to more than animation_time
\* and time_elapsed is animation_time.
C6_StepClamped ==
    /\ IsContinuous
    /\ outcome.op = ContinuousMakeStepOp
    /\ delta_sum > Current.animation_time
    /\ Current.time_elapsed = Current.animation_time

\* C7: in every state of a ContinuousAnimation, 0 <= time_elapsed <=
\* animation_time.
C7_ElapsedWithinDuration ==
    IsContinuous => 0 <= Current.time_elapsed /\ Current.time_elapsed <= Current.animation_time

\* C8: no make_step call on a ContinuousAnimation decreases time_elapsed.
C8_ElapsedNeverDecreases ==
    [][IsContinuous /\ MakeStepCalled => Current'.time_elapsed >= Current.time_elapsed]_vars

\* C9: when the time deltas given to a ContinuousAnimation sum to more than
\* animation_time, time_elapsed is animation_time.
C9_SaturatedWhenDeltasExceedDuration ==
    IsContinuous /\ delta_sum > Current.animation_time =>
        Current.time_elapsed = Current.animation_time

\* C10: a make_step call on a ContinuousAnimation whose time_elapsed is
\* animation_time leaves time_elapsed equal to animation_time.
C10_SaturationIsKept ==
    [][IsContinuous /\ MakeStepCalled /\ Current.time_elapsed = Current.animation_time =>
          Current'.time_elapsed = Current'.animation_time]_vars

ContinuousQueryOps ==
    {"ContinuousAnimation::get_quaternion_frames", "ContinuousAnimation::get_euler_frames"}

\* C11: a get_quaternion_frames or get_euler_frames call on a
\* ContinuousAnimation leaves the animation as it was and returns exactly one
\* transform, that of the current time_elapsed: its translation is the
\* position at time_elapsed / animation_time, it is the begin-pose transform
\* at time_elapsed = 0 and the end-pose transform at time_elapsed =
\* animation_time; and a query that follows a query of the same track
\* returns the same transform.
C11_QueryReturnsOneTransform ==
    [][IsContinuous /\ outcome'.op \in ContinuousQueryOps =>
          /\ animation' = animation
          /\ Len(outcome'.value) = 1
          /\ outcome'.value[1].translation
                 = VLerp(Current.begin_position, Current.end_position,
                         Div(Whole(Current.time_elapsed), Whole(Current.animation_time)))
          /\ (Current.time_elapsed = 0 =>
                 outcome'.value[1] = PoseTransform(Current.begin_position, Current.begin_angle))
          /\ (Current.time_elapsed = Current.animation_time =>
                 outcome'.value[1] = PoseTransform(Current.end_position, Current.end_angle))
          /\ (outcome.op = outcome'.op => outcome'.value = outcome.value)]_vars

\* A ContinuousAnimation part of the way through has been queried, and the
\* one transform returned lies strictly between its two positions.
C11_QueriedMidway ==
    /\ IsContinuous
    /\ outcome.op \in ContinuousQueryOps
    /\ 0 < Current.time_elapsed /\ Current.time_elapsed < Current.animation_time
    /\ Len(outcome.value) = 1
    /\ outcome.value[1].translation \notin {Current.begin_position, Current.end_position}

\* An angle of n degrees, in quarter turns.
Degrees(n) == Num(n, 0, 90)

\* angles_shortest_path has returned.
PathReturned == outcome.op = ShortestPathOp /\ outcome.status = "Returned"

\* end - begin of a pair <<begin, end>>.
Travel(pair) == Sub(pair[2], pair[1])

\* C12: for begin and end in [0, 2 * PI), angles_shortest_path returns
\* <<begin', end'>> with |end' - begin'| <= PI and end' - begin' differing
\* from end - begin by a whole number of turns; begin = 350 degrees and
\* end = 10 degrees resolve to a travel of +20 degrees.
C12_ShortestPathWithinHalfTurn ==
    PathReturned =>
        /\ Ge(Whole(PI), Travel(outcome.value))
        /\ Ge(Travel(outcome.value), Whole(-PI))
        /\ IsInteger(Div(Sub(Travel(outcome.value), Travel(outcome.arg)), Whole(2 * PI)))
        /\ (outcome.arg = <<Degrees(350), Degrees(10)>> =>
               Travel(outcome.value) = Degrees(20))

\* The call with begin = 350 degrees and end = 10 degrees has returned
\* -10 and 10 degrees.
C12_SeamCrossed ==
    /\ PathReturned
    /\ outcome.arg = <<Degrees(350), Degrees(10)>>
    /\ outcome.value = <<Degrees(-10), Degrees(10)>>

\* The branch rule as the specification words it, on <<begin, end>>.
StatedBranchRule(begin, end) ==
    IF Gt(Sub(end, begin), Whole(PI))
    THEN (IF Lt(begin, end) THEN <<begin, Sub(end, Whole(2 * PI))>>
          ELSE <<Add(begin, Whole(2 * PI)), end>>)
    ELSE IF Lt(Sub(end, begin), Whole(-PI))
    THEN (IF Lt(begin, end) THEN <<Add(begin, Whole(2 * PI)), end>>
          ELSE <<begin, Sub(end, Whole(2 * PI))>>)
    ELSE <<begin, end>>

\* C13 as stated: if end - begin > PI, end is shifted by -2 PI when
\* begin < end, else begin by +2 PI; if end - begin < -PI, begin is shifted
\* by +2 PI when begin < end, else end by -2 PI; otherwise neither changes.
C13_StatedBranchRule ==
    PathReturned => outcome.value = StatedBranchRule(outcome.arg[1], outcome.arg[2])

\* The branch rule with the outcome of its two `else` cases amended.
AmendedBranchRule(begin, end) ==
    IF Gt(Sub(end, begin), Whole(PI))
    THEN (IF Lt(begin, end) THEN <<begin, Sub(end, Whole(2 * PI))>>
          ELSE <<begin, Add(end, Whole(2 * PI))>>)
    ELSE IF Lt(Sub(end, begin), Whole(-PI))
    THEN (IF Lt(begin, end) THEN <<Add(begin, Whole(2 * PI)), end>>
          ELSE <<Sub(begin, Whole(2 * PI)), end>>)
    ELSE <<begin, end>>

\* C13 amended: if end - begin > PI, end is shifted by -2 PI when
\* begin < end, else by +2 PI; if end - begin < -PI, begin is shifted by
\* +2 PI when begin < end, else by -2 PI; otherwise neither changes.
C13_BranchRule ==
    PathReturned => outcome.value = AmendedBranchRule(outcome.arg[1], outcome.arg[2])

\* A call with end - begin < -PI has returned begin - 2 PI and end.
C13_BeginShiftedDown ==
    /\ PathReturned
    /\ Lt(Travel(outcome.arg), Whole(-PI))
    /\ outcome.value = <<Sub(outcome.arg[1], Whole(2 * PI)), outcome.arg[2]>>

\* get_normalized_angles has returned.
NormalizedAnglesReturned == outcome.op = NormalizedAnglesOp /\ outcome.status = "Returned"

\* The <<begin, end>> quaternions it returned.
ReturnedPair == <<outcome.value[1], outcome.value[3]>>

\* The quaternions of the <<begin, end>> Euler vectors it returned.
RebuiltPair ==
    << from_euler_angles(outcome.value[2][1], outcome.value[2][2], outcome.value[2][3]),
       from_euler_angles(outcome.value[4][1], outcome.value[4][2], outcome.value[4][3]) >>

\* The options of the winding search on the endpoints of the call.
CallOptions ==
    WindingOptions(deconstruct(outcome.arg[1])[1], deconstruct(outcome.arg[2])[1])

\* C14: get_normalized_angles returns the pair the winding search picks
\* whenever begin, end or both were given as Quternion, and the pair rebuilt
\* from the resolved Euler vectors only when both were given as Euler.
C14_SearchRunsForAnyQuaternion ==
    NormalizedAnglesReturned =>
        IF outcome.arg[1].variant = "Euler" /\ outcome.arg[2].variant = "Euler"
        THEN ReturnedPair = RebuiltPair
        ELSE ReturnedPair = Reduce(CallOptions)

\* C15: when the winding search runs, the pair returned is one of the
\* 2 * 343 options and no option has a smaller squared distance.
C15_SearchReturnsNearestOption ==
    NormalizedAnglesReturned /\ outcome.arg[1].variant = "Quternion" =>
        Let(CallOptions, LAMBDA options :
            /\ Len(options) = 2 * 343
            /\ \E n \in 1..Len(options) : options[n] = ReturnedPair
            /\ \A n \in 1..Len(options) :
                   Ge(Distance(options[n]), Distance(ReturnedPair)))

\* deconstruct has returned.
DeconstructReturned == outcome.op = DeconstructOp /\ outcome.status = "Returned"

\* A Quternion of squared norm below 1e-6.
NearZero(angle) ==
    angle.variant = "Quternion" /\ Lt(norm_squared(angle.value), NormEpsilon)

HasNaN(v) == \E c \in 1..Len(v) : IsNaN(v[c])

\* C16: for a Quternion of squared norm below 1e-6, the zero quaternion
\* included, deconstruct returns the identity quaternion (1, 0, 0, 0), and
\* neither the quaternion nor the Euler vector it returns holds a NaN.
C16_NearZeroQuaternionBecomesIdentity ==
    DeconstructReturned /\ NearZero(outcome.arg[1]) =>
        /\ outcome.value[1] = QIdentity
        /\ ~HasNaN(outcome.value[1])
        /\ ~HasNaN(outcome.value[2])

\* C17: every DiscreteFrameAnimation, made by the builder's build or by the
\* derived `new`, has frames_count >= 2, and the fraction of every frame
\* make_step computes is a number: frames_count - 1 is not 0.
C17_FramesCountAtLeastTwo ==
    IsDiscrete =>
        /\ Current.frames_count >= 2
        /\ \A f \in FrameIndices(Current.frames_count) :
               ~IsNaN(Fraction(f, Current.frames_count))

\* The instance as it was constructed: its caches absent.
AsConstructed == [Current EXCEPT !.quaternion_frames = None, !.euler_frames = None]

\* A second instance of the same construction inputs after one
\* make_step(0.0).
SteppedOnce == Discrete_make_step(AsConstructed, 0)

\* C18: a DiscreteFrameAnimation on which make_step has been called once or
\* more, with whatever time arguments, holds the caches and returns the
\* sequences of an instance of the same construction inputs on which
\* make_step(0.0) was called once.
C18_FramesDoNotDependOnTime ==
    IsDiscrete /\ steps >= 1 =>
        /\ Current.quaternion_frames = SteppedOnce.quaternion_frames
        /\ Current.euler_frames = SteppedOnce.euler_frames
        /\ (outcome.op = "DiscreteFrameAnimation::get_quaternion_frames" =>
               outcome.value = unwrap(SteppedOnce.quaternion_frames))
        /\ (outcome.op = "DiscreteFrameAnimation::get_euler_frames" =>
               outcome.value = unwrap(SteppedOnce.euler_frames))

\* An instance stepped twice or more has been queried and has returned what
\* the instance stepped once by 0 holds.
C18_QueriedAfterOtherTimes ==
    /\ IsDiscrete /\ steps >= 2
    /\ outcome.op = "DiscreteFrameAnimation::get_euler_frames"
    /\ Len(outcome.value) = Current.frames_count
    /\ outcome.value = unwrap(SteppedOnce.euler_frames)

\* The inputs an animation captured at construction.
CapturedInputs(a) ==
    << a.type, a.begin_position, a.end_position, a.begin_angle, a.end_angle,
       a.quaternion_interpolation_type,
       IF a.type = "Discrete" THEN a.frames_count ELSE a.animation_time >>

\* C19: once an animation is constructed, every operation leaves its begin
\* and end position, begin and end angle, interpolation type and
\* frames_count / animation_time as they were; a query changes no field,
\* Discrete make_step changes at most the two caches and Continuous
\* make_step at most time_elapsed.
C19_InputsNeverChange ==
    [][is_some(animation) =>
          /\ is_some(animation')
          /\ CapturedInputs(Current') = CapturedInputs(Current)
          /\ (~MakeStepCalled => animation' = animation)
          /\ (MakeStepCalled /\ IsDiscrete =>
                 Current' = [Current EXCEPT !.quaternion_frames = Current'.quaternion_frames,
                                            !.euler_frames = Current'.euler_frames])
          /\ (MakeStepCalled /\ IsContinuous =>
                 Current' = [Current EXCEPT !.time_elapsed = Current'.time_elapsed])]_vars

\* A Continuous make_step has moved time_elapsed, and a query has followed.
C19_SteppedAndQueried ==
    /\ IsContinuous
    /\ outcome.op \in ContinuousQueryOps
    /\ steps >= 1
    /\ Current.time_elapsed # 0
    /\ \E f \in Fields : Current.begin_angle = f.begin_angle /\ Current.end_angle = f.end_angle

\* get_quaternions_interpolation has returned.
InterpolationReturned == outcome.op = InterpolationOp /\ outcome.status = "Returned"

\* C20: at t = 0 get_quaternions_interpolation returns the begin quaternion
\* and at t = 1 the end quaternion, under Linear and under Spherical alike,
\* for unit quaternions begin and end, those with sin theta = 0 included.
C20_LawsAgreeAtEnds ==
    InterpolationReturned /\ outcome.arg[3] \in {Zero, One} =>
        /\ outcome.value[1] = "direction"
        /\ from_quaternion(outcome.value[2])
               = IF outcome.arg[3] = Zero THEN outcome.arg[1] ELSE outcome.arg[2]

\* A Spherical call on opposite quaternions (sin theta = 0) at t = 1 has
\* returned the end quaternion.
C20_FallbackReachedEnd ==
    /\ InterpolationReturned
    /\ outcome.arg[4] = "Spherical"
    /\ outcome.arg[3] = One
    /\ QDot(outcome.arg[1], outcome.arg[2]) = Neg(One)
    /\ outcome.value = <<"direction", outcome.arg[2]>>

\* C24: a DiscreteFrameAnimation built by its builder has quaternion_frames
\* and euler_frames both absent or both present in every reachable state; so
\* a make_step on it builds while quaternion_frames is absent and changes
\* nothing while quaternion_frames is present.
C24_CachesAbsentOrPresentTogether ==
    IsDiscrete =>
        /\ Pending \/ Ready
        /\ ~is_some(Current.quaternion_frames) =>
               is_some(Discrete_make_step(Current, 0).quaternion_frames)
        /\ is_some(Current.quaternion_frames) => Discrete_make_step(Current, 0) = Current

\* The first make_step has filled both caches.
C24_BothFilledByFirstStep ==
    Ready /\ steps = 1 /\ outcome.op = DiscreteMakeStepOp

\* The squared distances of the options, in iteration order.
Distances(options) ==
    SubSeq([n \in 1..Len(options) |-> Distance(options[n])], 1, Len(options))

\* No distance of d is below d[n].  A NaN distance is below and above nothing.
IsMinimal(d, n) == \A m \in 1..Len(d) : Ge(d[m], d[n])

\* The indices of the distances equal to d[n].
EqualTo(d, n) == {m \in 1..Len(d) : Eq(d[m], d[n])}

\* The indices of the options that share the minimal distance; none when
\* the distances have no minimum.
Tied(d) ==
    IF \E n \in 1..Len(d) : IsMinimal(d, n)
    THEN EqualTo(d, CHOOSE n \in 1..Len(d) : IsMinimal(d, n))
    ELSE {}

FirstOf(indices) == CHOOSE n \in indices : \A m \in indices : n <= m

LastOf(indices) == CHOOSE n \in indices : \A m \in indices : m <= n

\* The options and the indices of those that share the minimal distance.
TiedOptions(options) == <<options, Tied(Distances(options))>>

\* get_normalized_angles has returned from a call in which the winding
\* search ran.
SearchReturned == NormalizedAnglesReturned /\ outcome.arg[1].variant = "Quternion"

\* C23 as stated: when several options of the winding search share the
\* minimal squared distance, the pair returned is the first of them in
\* iteration order.
C23_FirstTiedOptionReturned ==
    SearchReturned =>
        Let(TiedOptions(CallOptions),
            LAMBDA t : Cardinality(t[2]) > 1 => ReturnedPair = t[1][FirstOf(t[2])])

\* C23, amended: when several options of the winding search share the
\* minimal squared distance, the pair returned is the last of them in
\* iteration order.
C23_LastTiedOptionReturned ==
    SearchReturned =>
        Let(TiedOptions(CallOptions),
            LAMBDA t : Cardinality(t[2]) > 1 => ReturnedPair = t[1][LastOf(t[2])])

\* The search has returned from tied options of which the first and the
\* last are different pairs.
C23_TiedOptionsDiffer ==
    SearchReturned /\
        Let(TiedOptions(CallOptions),
            LAMBDA t : Cardinality(t[2]) > 1 /\ t[1][FirstOf(t[2])] # t[1][LastOf(t[2])])

\* build_ui has just handled a click on the quaternion panel's `run`.
QuaternionRunClicked ==
    /\ outcome.op = "build_ui"
    /\ outcome.arg[1].kind = "run"
    /\ outcome.arg[1].button = "quaternion"

\* C22: after a click on `run` in the quaternion panel, the begin and end
\* rotations of the constructed animation are the panel's begin and end
\* quaternions, w, x, y and z each from the same quaternion, in Discrete and
\* in Continuous mode.
C22_RunTakesPanelQuaternions ==
    QuaternionRunClicked =>
        /\ Current.begin_angle = new_quternion(animation_data.begin_rotation_quaternion)
        /\ Current.end_angle = new_quternion(animation_data.end_rotation_quaternion)

\* A read of the redraw has returned its frames from an instance that
\* make_step has been called on.
ReadAfterMakeStep(op) ==
    /\ steps >= 1
    /\ IsDiscrete => Ready
    /\ outcome'.op = op
    /\ outcome'.status = "Returned"
    /\ UNCHANGED <<animation, steps>>

\* C21: in the redraw loop, whatever the clicks on `run` (each puts a fresh
\* instance in place of the current one) and the redraws in between, each
\* redraw of an animation calls make_step once, then get_quaternion_frames,
\* then get_euler_frames, all on the same instance; build_ui and a redraw
\* with no animation call none of them; and no call panics.
C21_RedrawStepsBeforeReads ==
    [][/\ outcome'.status # "Panic"
       /\ pc = "build_ui" =>
              pc' = "make_step" /\ steps' \in {steps, 0} /\ outcome'.op = "build_ui"
       /\ pc = "make_step" /\ is_some(animation) =>
              /\ pc' = "get_quaternion_frames"
              /\ steps' = steps + 1
              /\ outcome'.op = "Animation::make_step"
       /\ pc = "make_step" /\ animation = None =>
              pc' = "build_ui" /\ UNCHANGED <<animation, steps>>
       /\ pc = "get_quaternion_frames" =>
              pc' = "get_euler_frames" /\ ReadAfterMakeStep("Animation::get_quaternion_frames")
       /\ pc = "get_euler_frames" =>
              pc' = "build_ui" /\ ReadAfterMakeStep("Animation::get_euler_frames")]_vars

\* A redraw has made the first make_step of a DiscreteFrameAnimation and
\* then both reads.
C21_FreshInstanceRedrawn ==
    /\ pc = "build_ui"
    /\ IsDiscrete /\ steps = 1
    /\ outcome.op = "Animation::get_euler_frames"
    /\ outcome.status = "Returned"

====
